---- MODULE Spec2Model ----
(***************************************************************************)
(* flat-drop: FlatDrop<K> wraps a container K (Box, Rc, Arc) of a          *)
(* recursive value and replaces the recursive drop by a work-list loop.    *)
(*                                                                         *)
(* Values are numbered 1..n.  A container is a pair <<owner, v>>: a handle *)
(* to value v held by value `owner` (0: the head held by the environment,  *)
(* negative: an extra handle held outside the structure).  A wrapper is a  *)
(* pair <<c, g>>: the g-th FlatDrop built around container c.              *)
(***************************************************************************)
EXTENDS Integers, Sequences, FiniteSets, TLC

\* Largest number of values in a structure of Box containers.
MaxNodes == 5
\* Largest number of values in a structure of Rc / Arc containers.
MaxShared == 3
\* Largest number of extra handles held outside the structure.
MaxExt == 1
\* Largest number of calls of FlatDrop::new the owner makes after construction.
MaxNew == 1
\* Number of threads that hold handles to an Arc structure.
NThreads == 2
\* Largest number of borrows (deref, deref_mut, as_ref, as_mut) the owner takes.
MaxBorrow == 2

VARIABLES
  kind,       \* the container type K: "Box", "Rc" or "Arc"
  panics,     \* the values whose Recursive::destruct panics
  panicMode,  \* the build's panic strategy: "unwind" or "abort"
  fields,     \* fields[v]: the FlatDrop wrappers value v owns, in declaration order
  strong,     \* strong[v]: the owner count of value v (1 for a live Box)
  vstate,     \* vstate[v]: "live", "decomposed" (destruct consumed it) or "dropped" (drop glue ran)
  slot,       \* slot[w]: the container in wrapper w's ManuallyDrop field
  winit,      \* winit[w]: the ManuallyDrop field of w has not been taken
  wstate,     \* wstate[w]: "Unborn", "Active" or "Consumed"
  given,      \* given[w]: the container FlatDrop::new was called with
  ret,        \* ret[w]: the container FlatDrop::into_inner returned, or NoCont
  envK,       \* the plain containers held by the environment
  envW,       \* the wrappers held by the environment
  stack,      \* stack[t]: the call frames of thread t, innermost last
  tstate,     \* tstate[t]: "ok", "unwinding" or "panicked"
  aborted,    \* the process has aborted
  xres,       \* xres[c]: the outcome of into_option_inner(c): "-", "Some" or "None"
  nExtract,   \* nExtract[c]: calls of into_option_inner on c
  nKDrop,     \* nKDrop[c]: ordinary drops of container c
  nDestruct,  \* nDestruct[v]: calls of destruct on v
  nGlue,      \* nGlue[v]: times v was dropped in place by drop glue
  nTake,      \* nTake[w]: times ManuallyDrop::take moved the container out of w
  nRun,       \* nRun[w]: invocations of FlatDrop::drop on w
  peak,       \* peak[t]: the deepest nesting of call frames thread t has reached
  stranded,   \* stranded[t]: the containers left in to_drop when t's loop panicked
  nBorrow,    \* nBorrow[w]: borrows taken from wrapper w
  lent        \* the last reference a borrow returned, or NoRef

struct == <<kind, panics, panicMode>>
heap == <<fields, strong, vstate>>
wraps == <<slot, winit, wstate, given, ret>>
env == <<envK, envW>>
ctl == <<stack, tstate, aborted, peak>>
borrow == <<nBorrow, lent>>
hist == <<xres, nExtract, nKDrop, nDestruct, nGlue, nTake, nRun, stranded>>
vars == <<kind, panics, panicMode, fields, strong, vstate, slot, winit, wstate,
          given, ret, envK, envW, stack, tstate, aborted, xres, nExtract,
          nKDrop, nDestruct, nGlue, nTake, nRun, peak, stranded, nBorrow, lent>>

NoCont == <<0, 0>>

\* No reference: op is the borrow called, w the wrapper, cont the container
\* referred to, val the value referred to (0: the container itself).
NoRef == [op |-> "-", w |-> <<NoCont, 0>>, cont |-> NoCont, val |-> 0]

Max(a, b) == IF a >= b THEN a ELSE b

Min(S) == CHOOSE x \in S : \A y \in S : x <= y

RECURSIVE SortedSeq(_)
SortedSeq(S) == IF S = {} THEN <<>> ELSE <<Min(S)>> \o SortedSeq(S \ {Min(S)})

Range(s) == {s[i] : i \in DOMAIN s}

Vals == DOMAIN strong
Conts == DOMAIN nExtract
Wraps == DOMAIN wstate

\* The value a container points to.
target(c) == c[2]

\* The threads that may hold handles: Rc is not Send, Arc handles may be
\* spread over threads.
Threads == IF kind = "Arc" THEN 1..NThreads ELSE {1}

----------------------------------------------------------------------------
\* Construction (from_usize generalised to trees and shared graphs).

\* own[v] is the set of values holding a handle to v; owners are numbered
\* below the values they own, so the ownership graph is acyclic.
BoxShapes(n) == {own \in [2..n -> {{p} : p \in 1..(n - 1)}] :
                   \A v \in 2..n : \A p \in own[v] : p < v}

SharedShapes(n) == {own \in [2..n -> (SUBSET (1..(n - 1))) \ {{}}] :
                      \A v \in 2..n : \A p \in own[v] : p < v}

KidsOf(own, n, v) == {k \in 2..n : v \in own[k]}

\* Box::new / Rc::new / Arc::new followed by FlatDrop::new for every handle
\* inside the structure and for the head; the extra handles are clones.
Build(k, n, own, ext, P, mode) ==
  LET inner == {<<p, v>> : p \in 1..n, v \in 2..n} \cap
               {c \in (1..n) \X (2..n) : c[1] \in own[c[2]]}
      outer == {c \in (-MaxExt..-1) \X (1..n) : -c[1] <= ext[c[2]]}
      conts == inner \cup {<<0, 1>>} \cup outer
      ws    == (inner \X {0}) \cup ({<<0, 1>>} \X (0..MaxNew)) \cup
               (outer \X (1..MaxNew))
      born  == (inner \cup {<<0, 1>>}) \X {0}
  IN  /\ kind = k
      /\ panics = P
      /\ panicMode = mode
      /\ fields = [v \in 1..n |->
                     LET ks == SortedSeq(KidsOf(own, n, v))
                     IN  [i \in 1..Len(ks) |-> <<(<<v, ks[i]>>), 0>>]]
      /\ strong = [v \in 1..n |->
                     Cardinality({c \in conts : target(c) = v})]
      /\ vstate = [v \in 1..n |-> "live"]
      /\ slot = [w \in ws |-> IF w \in born THEN w[1] ELSE NoCont]
      /\ winit = [w \in ws |-> w \in born]
      /\ wstate = [w \in ws |-> IF w \in born THEN "Active" ELSE "Unborn"]
      /\ given = [w \in ws |-> IF w \in born THEN w[1] ELSE NoCont]
      /\ ret = [w \in ws |-> NoCont]
      /\ envK = outer
      /\ envW = {<<(<<0, 1>>), 0>>}
      /\ stack = [t \in 1..NThreads |-> <<>>]
      /\ tstate = [t \in 1..NThreads |-> "ok"]
      /\ aborted = FALSE
      /\ xres = [c \in conts |-> "-"]
      /\ nExtract = [c \in conts |-> 0]
      /\ nKDrop = [c \in conts |-> 0]
      /\ nDestruct = [v \in 1..n |-> 0]
      /\ nGlue = [v \in 1..n |-> 0]
      /\ nTake = [w \in ws |-> 0]
      /\ nRun = [w \in ws |-> 0]
      /\ peak = [t \in 1..NThreads |-> 0]
      /\ stranded = [t \in 1..NThreads |-> {}]
      /\ nBorrow = [w \in ws |-> 0]
      /\ lent = NoRef

\* The sets of panicking destructs a run starts from: none, or any set of at
\* most two values.
PanicSets(n, any) ==
  IF any THEN {P \in SUBSET (1..n) : Cardinality(P) <= 2} ELSE {{}}

InitBox(any, MS) ==
  \E n \in 1..MaxNodes : \E own \in BoxShapes(n) :
    \E P \in PanicSets(n, any) : \E mode \in MS :
      Build("Box", n, own, [v \in 1..n |-> 0], P, mode)

\* ext[v] is the number of extra handles to v held outside the structure.
ExtChoices(n) ==
  {ext \in [1..n -> 0..MaxExt] :
     Cardinality({c \in (1..MaxExt) \X (1..n) : c[1] <= ext[c[2]]}) <= MaxExt}

InitShared(KS, N, any, MS) ==
  \E k \in KS : \E n \in 1..N : \E own \in SharedShapes(n) :
    \E ext \in ExtChoices(n) : \E P \in PanicSets(n, any) : \E mode \in MS :
      Build(k, n, own, ext, P, mode)

\* Every Box and Rc structure, and the Arc structures of one value less.
Init ==
  \/ InitBox(FALSE, {"unwind"})
  \/ InitShared({"Rc"}, MaxShared, FALSE, {"unwind"})
  \/ InitShared({"Arc"}, MaxShared - 1, FALSE, {"unwind"})

----------------------------------------------------------------------------
\* The library's functions.

\* A buggy extraction: hands the value out while other owners remain.
IntoOptionInnerLax(k, cnt) ==
  IF k = "Box" THEN [some |-> TRUE, cnt |-> 0]
  ELSE [some |-> cnt >= 1, cnt |-> cnt - 1]

\* An extraction that never returns a shared value (as when each of two
\* racing threads sees the other's handle and gives up).
IntoOptionInnerNever(k, cnt) ==
  IF k = "Box" THEN [some |-> TRUE, cnt |-> 0]
  ELSE [some |-> FALSE, cnt |-> cnt - 1]

\* into_option_inner: Box gives Some(*self); Rc::into_inner and
\* Arc::into_inner give the value iff the count was 1, and lower the count.
IntoOptionInner(k, cnt) ==
  IF k = "Box" THEN [some |-> TRUE, cnt |-> 0]
  ELSE [some |-> cnt = 1, cnt |-> cnt - 1]

\* ManuallyDrop::new(container): the field of the new wrapper.
ManuallyDropNew(c) == c

\* ManuallyDrop::take(&mut self.0): the container in the field.
Take(w) == slot[w]

\* FlatDrop::into_inner: the container taken out of the wrapper.
IntoInner(w) == Take(w)

\* into_inner without mem::forget: the wrapper is still dropped.
AfterIntoInnerNoForget(st) == st

\* std::mem::forget(self) in into_inner: the wrapper is gone and its Drop
\* never runs.
AfterIntoInner(st) == "Consumed"

\* A destruct that does not yield its last child.
DestructDropsLast(v) ==
  [i \in 1..(Len(fields[v]) - 1) |-> IntoInner(fields[v][i])]

\* Natural::destruct, for a value with any number of FlatDrop fields: each
\* field's into_inner, in order.
Destruct(v) == [i \in 1..Len(fields[v]) |-> IntoInner(fields[v][i])]

\* A loop that stops one container early.
LoopContinuesButLast(list) == Len(list) > 1

\* while let Some(container) = to_drop.pop(): the loop goes on.
LoopContinues(list) == list # <<>>

\* A pop from the wrong end.
PopFront(list) == [item |-> Head(list), rest |-> Tail(list)]

\* to_drop.pop(): the last element, and the list without it.
Pop(list) ==
  [item |-> list[Len(list)], rest |-> SubSeq(list, 1, Len(list) - 1)]

\* A buggy extend: every child is pushed twice.
ExtendTwice(list, cs) == list \o cs \o cs

\* to_drop.extend(value.destruct())
Extend(list, cs) == list \o cs

\* A loop that decomposes behind a failed extraction.
ChildrenAlways(r, v) == Destruct(v)

\* if let Some(value) = container.into_option_inner(): the children the
\* iteration appends, none when the extraction gave nothing.
Children(r, v) == IF r.some THEN Destruct(v) ELSE <<>>

\* A recursive drop: the children are torn down by a nested invocation
\* instead of being pushed on the caller's work list.
LoopRecursive(stk, rest, cs) ==
  [stk EXCEPT ![Len(stk)].list = rest] \o <<[fn |-> "drop", list |-> cs]>>

\* The call stack after an iteration of the loop of FlatDrop::drop that left
\* `rest` in to_drop and got the children cs: the same frame goes on.
Loop(stk, rest, cs) == [stk EXCEPT ![Len(stk)].list = Extend(rest, cs)]

----------------------------------------------------------------------------
\* Call frames.  A "drop" frame is a running FlatDrop::drop with its work
\* list to_drop; a "glue" frame is drop glue with the items it still has to
\* drop, first first: <<"W", w>> a FlatDrop field, <<"K", c>> a container.

Top(t) == stack[t][Len(stack[t])]

SetTopList(t, l) == [stack[t] EXCEPT ![Len(stack[t])].list = l]

\* Thread t can take the owner's next operation: it runs nothing, and (idle
\* threads being interchangeable) every thread before it is busy.
Idle(t) ==
  /\ ~aborted
  /\ t \in Threads
  /\ tstate[t] = "ok"
  /\ stack[t] = <<>>
  /\ \A u \in 1..(t - 1) : stack[u] # <<>>

InFrame(t, f) ==
  /\ ~aborted
  /\ stack[t] # <<>>
  /\ Top(t).fn = f

WItems(ws) == [i \in 1..Len(ws) |-> <<"W", ws[i]>>]

\* An unwinding that forgets to_drop instead of dropping it.
KItemsLeaked(cs) == <<>>

\* Drop of a Vec<K>: its elements, from the front.
KItems(cs) == [i \in 1..Len(cs) |-> <<"K", cs[i]>>]

\* FlatDrop::drop up to the loop: take the container, to_drop = vec![value].
FlatDropBegin(t, w, stk) ==
  /\ stack' = [stack EXCEPT ![t] =
                 Append(stk, [fn |-> "drop", list |-> <<Take(w)>>])]
  /\ winit' = [winit EXCEPT ![w] = FALSE]
  /\ wstate' = [wstate EXCEPT ![w] = "Consumed"]
  /\ nTake' = [nTake EXCEPT ![w] = @ + 1]
  /\ nRun' = [nRun EXCEPT ![w] = @ + 1]
  /\ peak' = [peak EXCEPT ![t] = Max(@, Len(stk) + 2)]
  /\ UNCHANGED <<struct, heap, slot, given, ret, tstate, aborted,
                 xres, nExtract, nKDrop, nDestruct, nGlue, stranded, borrow>>

\* The ordinary drop of a container: Box drops its value; Rc and Arc lower
\* the count and drop the value when it reaches zero.  Dropping a value in
\* place runs the drop glue of its FlatDrop fields.
KDrop(t, c, stk) ==
  LET v == target(c)
      isLast == kind = "Box" \/ strong[v] = 1
  IN  /\ strong' = [strong EXCEPT ![v] = IF kind = "Box" THEN 0 ELSE @ - 1]
      /\ nKDrop' = [nKDrop EXCEPT ![c] = @ + 1]
      /\ IF isLast
           THEN /\ vstate' = [vstate EXCEPT ![v] = "dropped"]
                /\ nGlue' = [nGlue EXCEPT ![v] = @ + 1]
                /\ fields' = [fields EXCEPT ![v] = <<>>]
                /\ stack' = [stack EXCEPT ![t] =
                     Append(stk, [fn |-> "glue", list |-> WItems(fields[v])])]
                /\ peak' = [peak EXCEPT ![t] = Max(@, Len(stk) + 2)]
           ELSE /\ stack' = [stack EXCEPT ![t] = stk]
                /\ peak' = [peak EXCEPT ![t] = Max(@, Len(stk) + 1)]
                /\ UNCHANGED <<vstate, nGlue, fields>>
      /\ UNCHANGED <<struct, wraps, tstate, aborted,
                     xres, nExtract, nDestruct, nTake, nRun, stranded, borrow>>

----------------------------------------------------------------------------
\* What the owner of the head and of the outside handles does.

\* FlatDrop::new(container)
EnvNew(t, c) ==
  /\ Idle(t)
  /\ c \in envK
  /\ Cardinality({w \in Wraps : w[2] >= 1 /\ wstate[w] # "Unborn"}) < MaxNew
  /\ \E g \in 0..MaxNew :
       LET w == <<c, g>>
       IN  /\ w \in Wraps
           /\ wstate[w] = "Unborn"
           /\ \A h \in 0..(g - 1) : <<c, h>> \in Wraps => wstate[<<c, h>>] # "Unborn"
           /\ slot' = [slot EXCEPT ![w] = ManuallyDropNew(c)]
           /\ given' = [given EXCEPT ![w] = c]
           /\ winit' = [winit EXCEPT ![w] = TRUE]
           /\ wstate' = [wstate EXCEPT ![w] = "Active"]
           /\ envW' = envW \cup {w}
  /\ envK' = envK \ {c}
  /\ UNCHANGED <<struct, heap, ret, ctl, hist, borrow>>

\* FlatDrop::into_inner(wrapper)
EnvIntoInner(t, w) ==
  /\ Idle(t)
  /\ w \in envW
  /\ ret' = [ret EXCEPT ![w] = IntoInner(w)]
  /\ winit' = [winit EXCEPT ![w] = FALSE]
  /\ nTake' = [nTake EXCEPT ![w] = @ + 1]
  /\ wstate' = [wstate EXCEPT ![w] = AfterIntoInner(@)]
  /\ envW' = {x \in envW : x # w \/ wstate'[x] = "Active"}
  /\ envK' = envK \cup {IntoInner(w)}
  /\ peak' = [peak EXCEPT ![t] = Max(@, 2)]
  /\ UNCHANGED <<struct, heap, slot, given, stack, tstate, aborted,
                 xres, nExtract, nKDrop, nDestruct, nGlue, nRun, stranded, borrow>>

\* The owner lets a wrapper go out of scope: FlatDrop::drop starts.
EnvDropWrapper(t, w) ==
  /\ Idle(t)
  /\ w \in envW
  /\ envW' = envW \ {w}
  /\ envK' = envK
  /\ FlatDropBegin(t, w, stack[t])

\* The owner drops a plain container.
EnvDropCont(t, c) ==
  /\ Idle(t)
  /\ c \in envK
  /\ envK' = envK \ {c}
  /\ envW' = envW
  /\ KDrop(t, c, stack[t])

----------------------------------------------------------------------------
\* FlatDrop::drop, one iteration of the loop per step.

Drop_Step(t) ==
  /\ InFrame(t, "drop")
  /\ LoopContinues(Top(t).list)
  /\ LET p  == Pop(Top(t).list)
         c  == p.item
         v  == target(c)
         r  == IntoOptionInner(kind, strong[v])
         fs == Range(fields[v])
     IN  /\ ~(r.some /\ v \in panics)
         /\ strong' = [strong EXCEPT ![v] = r.cnt]
         /\ nExtract' = [nExtract EXCEPT ![c] = @ + 1]
         /\ xres' = [xres EXCEPT ![c] = IF r.some THEN "Some" ELSE "None"]
         /\ IF r.some
              THEN /\ vstate' = [vstate EXCEPT ![v] = "decomposed"]
                   /\ nDestruct' = [nDestruct EXCEPT ![v] = @ + 1]
                   /\ fields' = [fields EXCEPT ![v] = <<>>]
                   /\ wstate' = [w \in Wraps |->
                        IF w \in fs THEN AfterIntoInner(wstate[w]) ELSE wstate[w]]
                   /\ winit' = [w \in Wraps |-> IF w \in fs THEN FALSE ELSE winit[w]]
                   /\ nTake' = [w \in Wraps |->
                        IF w \in fs THEN nTake[w] + 1 ELSE nTake[w]]
                   /\ ret' = [w \in Wraps |-> IF w \in fs THEN IntoInner(w) ELSE ret[w]]
                   /\ stack' = [stack EXCEPT ![t] = Loop(@, p.rest, Children(r, v))]
                   /\ peak' = [peak EXCEPT ![t] =
                        Max(@, Len(stack'[t]) + (IF fs = {} THEN 1 ELSE 3))]
              ELSE /\ stack' = [stack EXCEPT ![t] = Loop(@, p.rest, Children(r, v))]
                   /\ peak' = [peak EXCEPT ![t] = Max(@, Len(stack'[t]) + 1)]
                   /\ UNCHANGED <<vstate, nDestruct, fields, wstate, winit,
                                  nTake, ret>>
  /\ UNCHANGED <<struct, slot, given, env, tstate, aborted, nKDrop, nGlue, nRun,
                 stranded, borrow>>

\* The loop ends; FlatDrop::drop returns.
Drop_End(t) ==
  /\ InFrame(t, "drop")
  /\ ~LoopContinues(Top(t).list)
  /\ stack' = [stack EXCEPT ![t] = SubSeq(@, 1, Len(@) - 1)]
  /\ UNCHANGED <<struct, heap, wraps, env, tstate, aborted, peak, hist, borrow>>

\* Drop glue reaches a FlatDrop field: FlatDrop::drop starts for it.
Glue_StepW(t) ==
  /\ InFrame(t, "glue")
  /\ Top(t).list # <<>>
  /\ Head(Top(t).list)[1] = "W"
  /\ FlatDropBegin(t, Head(Top(t).list)[2], SetTopList(t, Tail(Top(t).list)))
  /\ UNCHANGED env

\* Drop glue is done with its items.
Glue_End(t) ==
  /\ InFrame(t, "glue")
  /\ Top(t).list = <<>>
  /\ stack' = [stack EXCEPT ![t] = SubSeq(@, 1, Len(@) - 1)]
  /\ tstate' = [tstate EXCEPT ![t] =
                  IF @ = "unwinding" /\ Len(stack[t]) = 1 THEN "panicked" ELSE @]
  /\ UNCHANGED <<struct, heap, wraps, env, aborted, peak, hist, borrow>>

Next ==
  \E t \in 1..NThreads :
    \/ \E c \in envK : EnvNew(t, c)
    \/ \E w \in envW : EnvIntoInner(t, w)
    \/ \E w \in envW : EnvDropWrapper(t, w)
    \/ \E c \in envK : EnvDropCont(t, c)
    \/ Drop_Step(t)
    \/ Drop_End(t)
    \/ Glue_StepW(t)
    \/ Glue_End(t)

Spec == Init /\ [][Next]_vars

\* Structures of Box containers only.
SpecBox == InitBox(FALSE, {"unwind"}) /\ [][Next]_vars

\* A step of thread t inside a drop.
Run(t) == Drop_Step(t) \/ Drop_End(t) \/ Glue_StepW(t) \/ Glue_End(t)

\* Every Box structure, and the Rc and Arc structures of one value less.
InitFair ==
  \/ InitBox(FALSE, {"unwind"})
  \/ InitShared({"Rc", "Arc"}, MaxShared - 1, FALSE, {"unwind"})

\* The threads are scheduled: while some thread is inside a drop, some such
\* thread takes a step.
SpecFair ==
  InitFair /\ [][Next]_vars /\ WF_vars(\E t \in 1..NThreads : Run(t))

----------------------------------------------------------------------------
\* A panicking destruct.

\* value.destruct() panics on entry.  Under panic = "abort", or when the
\* thread is already unwinding, the process aborts.  Otherwise the thread
\* unwinds: destruct's self is dropped in place, then FlatDrop::drop's local
\* to_drop is dropped, element by element from the front.
Drop_StepPanic(t) ==
  /\ InFrame(t, "drop")
  /\ LoopContinues(Top(t).list)
  /\ LET p == Pop(Top(t).list)
         c == p.item
         v == target(c)
         r == IntoOptionInner(kind, strong[v])
     IN  /\ r.some
         /\ v \in panics
         /\ strong' = [strong EXCEPT ![v] = r.cnt]
         /\ nExtract' = [nExtract EXCEPT ![c] = @ + 1]
         /\ xres' = [xres EXCEPT ![c] = "Some"]
         /\ stranded' = [stranded EXCEPT ![t] = @ \cup Range(p.rest)]
         /\ IF panicMode = "abort" \/ tstate[t] = "unwinding"
              THEN /\ aborted' = TRUE
                   /\ stack' = [stack EXCEPT ![t] = SetTopList(t, p.rest)]
                   /\ peak' = [peak EXCEPT ![t] = Max(@, Len(stack[t]) + 1)]
                   /\ UNCHANGED <<vstate, nGlue, fields, tstate>>
              ELSE /\ aborted' = aborted
                   /\ tstate' = [tstate EXCEPT ![t] = "unwinding"]
                   /\ vstate' = [vstate EXCEPT ![v] = "dropped"]
                   /\ nGlue' = [nGlue EXCEPT ![v] = @ + 1]
                   /\ fields' = [fields EXCEPT ![v] = <<>>]
                   /\ stack' = [stack EXCEPT ![t] =
                        SubSeq(@, 1, Len(@) - 1) \o
                        <<[fn |-> "glue", list |-> KItems(p.rest)],
                          [fn |-> "glue", list |-> WItems(fields[v])]>>]
                   /\ peak' = [peak EXCEPT ![t] = Max(@, Len(stack[t]) + 1)]
  /\ UNCHANGED <<struct, wraps, env, nKDrop, nDestruct, nTake, nRun, borrow>>

\* Unwinding reaches an element of to_drop: its ordinary drop.
Glue_StepK(t) ==
  /\ InFrame(t, "glue")
  /\ Top(t).list # <<>>
  /\ Head(Top(t).list)[1] = "K"
  /\ KDrop(t, Head(Top(t).list)[2], SetTopList(t, Tail(Top(t).list)))
  /\ UNCHANGED env

\* Every Box structure and the Rc structures of one value less, with any
\* set of at most two panicking destructs, under either panic strategy.
InitPanic ==
  \/ InitBox(TRUE, {"unwind", "abort"})
  \/ InitShared({"Rc"}, MaxShared - 1, TRUE, {"unwind", "abort"})

NextPanic ==
  \/ Next
  \/ \E t \in 1..NThreads : Drop_StepPanic(t)
  \/ \E t \in 1..NThreads : Glue_StepK(t)

SpecPanic == InitPanic /\ [][NextPanic]_vars

----------------------------------------------------------------------------
\* The shape of the structure, read from the containers built at the start.

Root == <<0, 1>>

KidConts(v) == {c \in Conts : c[1] = v}

IsChain == \A v \in Vals : Cardinality(KidConts(v)) <= 1

AllStacksEmpty == \A t \in 1..NThreads : stack[t] = <<>>

\* FlatDrop::drop has run for a wrapper of the head and has returned.
HeadTornDown ==
  /\ AllStacksEmpty
  /\ \E w \in Wraps : slot[w] = Root /\ nRun[w] = 1

RECURSIVE SumOver(_, _)
SumOver(f, S) ==
  IF S = {} THEN 0
  ELSE LET x == CHOOSE y \in S : TRUE IN f[x] + SumOver(f, S \ {x})

----------------------------------------------------------------------------
\* C1: exactly-once teardown.  In a chain of N Box nodes no node is
\* decomposed or destroyed twice and no container is consumed twice; once
\* FlatDrop::drop of the wrapped head has returned, destruct has been called
\* exactly once for each of the N nodes and into_option_inner exactly once
\* for each of the N containers (N calls of each in all), and no node is
\* left undestroyed.
C1_ExactlyOnce ==
  (kind = "Box" /\ IsChain) =>
    /\ \A v \in Vals : nDestruct[v] + nGlue[v] <= 1
    /\ \A c \in Conts : nExtract[c] + nKDrop[c] <= 1
    /\ HeadTornDown =>
         /\ \A v \in Vals : nDestruct[v] = 1 /\ vstate[v] = "decomposed"
         /\ \A c \in Conts : nExtract[c] = 1
         /\ SumOver(nDestruct, Vals) = Cardinality(Vals)
         /\ SumOver(nExtract, Conts) = Cardinality(Vals)

C1_Witness ==
  /\ kind = "Box"
  /\ IsChain
  /\ Cardinality(Vals) >= 3
  /\ HeadTornDown
  /\ \A v \in Vals : nDestruct[v] = 1

----------------------------------------------------------------------------
\* The frames of thread t that are invocations of FlatDrop::drop.
DropFrames(t) == {i \in 1..Len(stack[t]) : stack[t][i].fn = "drop"}

\* C2: termination.  The ownership graph is finite and acyclic by
\* construction and no destruct panics; then every FlatDrop::drop that has
\* started returns: a state with all threads out of their drops is
\* eventually reached; and a FlatDrop::drop frame is only ever left when its
\* work list is empty.
C2_Terminates ==
  /\ (\E t \in 1..NThreads : DropFrames(t) # {}) ~> AllStacksEmpty
  /\ [][\A t \in 1..NThreads :
          (stack[t] # <<>> /\ Top(t).fn = "drop" /\ Len(stack'[t]) < Len(stack[t]))
            => Top(t).list = <<>>]_vars

\* Two threads have each run FlatDrop::drop on a handle of an Arc structure
\* of two values, both have returned, and every value has been decomposed.
C2_Witness ==
  /\ kind = "Arc"
  /\ Cardinality(Vals) >= 2
  /\ AllStacksEmpty
  /\ \A t \in 1..NThreads : peak[t] >= 2
  /\ Cardinality({w \in Wraps : nRun[w] = 1}) >= 2
  /\ \A v \in Vals : vstate[v] = "decomposed"

----------------------------------------------------------------------------
\* C3: stack safety.  Whatever the depth of a structure of Box containers,
\* no thread ever nests more than 5 call frames (drop glue of a plain Box,
\* FlatDrop::drop, destruct, into_inner, ManuallyDrop::take), and
\* FlatDrop::drop is never entered while another FlatDrop::drop is running
\* on the same thread: every descendant is handled by the head's loop.
C3_StackSafe ==
  kind = "Box" =>
    \A t \in 1..NThreads :
      /\ peak[t] <= 5
      /\ Len(stack[t]) <= 2
      /\ Cardinality(DropFrames(t)) <= 1

C3_Witness ==
  /\ kind = "Box"
  /\ IsChain
  /\ Cardinality(Vals) >= 4
  /\ stack[1] # <<>>
  /\ Top(1).fn = "drop"
  /\ Top(1).list = <<>>
  /\ \A v \in Vals : vstate[v] = "decomposed"

----------------------------------------------------------------------------
\* The containers a thread's frames hold: work lists, and the items drop
\* glue has still to drop.
InFrames(t) ==
  UNION {IF stack[t][i].fn = "drop"
           THEN Range(stack[t][i].list)
           ELSE {IF x[1] = "K" THEN x[2] ELSE slot[x[2]] :
                   x \in Range(stack[t][i].list)} :
         i \in 1..Len(stack[t])}

\* The containers held by the environment, plain or wrapped.
HeldOutside == envK \cup {slot[w] : w \in envW}

\* The containers held in the fields of values.
HeldInside == UNION {{slot[w] : w \in Range(fields[u])} : u \in Vals}

\* The live handles to value v.
LiveHandles(v) ==
  {c \in HeldOutside \cup HeldInside \cup UNION {InFrames(t) : t \in 1..NThreads} :
     target(c) = v}

\* v and the values below it in the structure as built.
RECURSIVE Desc(_)
Desc(v) == {v} \cup UNION {Desc(target(c)) : c \in KidConts(v)}

\* C4: shared ownership stops descent.  In an Rc or Arc structure a value
\* that has been decomposed (or dropped) has owner count 0 and no live handle;
\* while the environment holds an extra handle to a value, that value and
\* every value below it stay live and undecomposed and none of the
\* containers they own has been extracted; and once every handle has been
\* dropped and every drop has returned, no value is left live.
C4_SharedStopsDescent ==
  kind \in {"Rc", "Arc"} =>
    /\ \A v \in Vals :
         vstate[v] # "live" => (strong[v] = 0 /\ LiveHandles(v) = {})
    /\ \A c \in HeldOutside : c[1] < 0 =>
         \A u \in Desc(target(c)) :
           /\ vstate[u] = "live"
           /\ nDestruct[u] = 0
           /\ \A d \in KidConts(u) : nExtract[d] = 0
    /\ (HeldOutside = {} /\ AllStacksEmpty) =>
         \A v \in Vals : vstate[v] # "live"

\* The head has been torn down while an outside handle to a child with a
\* child of its own is alive: the child's handle was extracted to nothing.
C4_Witness ==
  /\ kind = "Rc"
  /\ HeadTornDown
  /\ vstate[1] = "decomposed"
  /\ \E c \in envK :
       /\ c[1] < 0
       /\ target(c) = 2
       /\ xres[<<1, 2>>] = "None"
       /\ vstate[2] = "live"
       /\ KidConts(2) # {}

----------------------------------------------------------------------------
\* C5: unwrap is a teardown-free round trip.  Whatever into_inner has
\* returned for a wrapper is the container FlatDrop::new was given, and
\* FlatDrop::drop never runs for that wrapper; the step in which into_inner
\* returns it leaves the container unextracted and undropped, and its value
\* with the same owner count, the same state, the same fields and no call
\* of destruct.
C5_RoundTrip ==
  /\ [](\A w \in Wraps : ret[w] # NoCont =>
          /\ ret[w] = given[w]
          /\ nRun[w] = 0
          /\ wstate[w] = "Consumed")
  /\ [][\A w \in Wraps : (ret[w] = NoCont /\ ret'[w] # NoCont) =>
          LET c == ret'[w]
              v == target(c)
          IN  /\ nExtract'[c] = nExtract[c] /\ nExtract[c] = 0
              /\ nKDrop'[c] = nKDrop[c] /\ nKDrop[c] = 0
              /\ strong'[v] = strong[v]
              /\ vstate'[v] = vstate[v]
              /\ fields'[v] = fields[v]
              /\ nDestruct'[v] = nDestruct[v]]_vars

\* A wrapper made by FlatDrop::new has been unwrapped again, and the
\* container is back in the caller's hands.
C5_Witness ==
  \E w \in Wraps :
    /\ w[2] >= 1
    /\ ret[w] = w[1]
    /\ ret[w] \in envK
    /\ strong[target(ret[w])] >= 2

----------------------------------------------------------------------------
\* C6: wrapper lifecycle.  A wrapper goes Unborn -> Active -> Consumed and
\* never back; the container is moved out of it at most once; an Active
\* wrapper holds an initialised container nobody has consumed, whose value is
\* live; a Consumed wrapper was emptied exactly once, either by into_inner or
\* by one run of FlatDrop::drop, never by both; FlatDrop::drop runs at most
\* once per wrapper.
C6_Lifecycle ==
  /\ [](\A w \in Wraps :
          /\ nTake[w] <= 1
          /\ nRun[w] <= 1
          /\ wstate[w] = "Unborn" => (nTake[w] = 0 /\ nRun[w] = 0 /\ ~winit[w])
          /\ wstate[w] = "Active" =>
               /\ winit[w]
               /\ slot[w] \in Conts
               /\ nTake[w] = 0
               /\ nRun[w] = 0
               /\ nExtract[slot[w]] = 0
               /\ nKDrop[slot[w]] = 0
               /\ vstate[target(slot[w])] = "live"
          /\ wstate[w] = "Consumed" =>
               /\ ~winit[w]
               /\ nTake[w] = 1
               /\ (ret[w] # NoCont) # (nRun[w] = 1))
  /\ [][\A w \in Wraps :
          /\ wstate[w] = "Consumed" => wstate'[w] = "Consumed"
          /\ wstate[w] = "Active" => wstate'[w] \in {"Active", "Consumed"}
          /\ (wstate[w] = "Active" /\ nRun'[w] = 1) => wstate'[w] = "Consumed"]_vars

\* One wrapper of a container was consumed by into_inner, and the next
\* wrapper of the same container by FlatDrop::drop.
C6_Witness ==
  \E c \in Conts :
    /\ <<c, 0>> \in Wraps
    /\ <<c, 1>> \in Wraps
    /\ wstate[<<c, 0>>] = "Consumed"
    /\ ret[<<c, 0>>] = c
    /\ wstate[<<c, 1>>] = "Consumed"
    /\ nRun[<<c, 1>>] = 1
    /\ AllStacksEmpty

----------------------------------------------------------------------------
\* C7: extraction outcome per container kind.  In every step that calls
\* into_option_inner on a container c of value v: for Box the value is
\* returned; for Rc and Arc the value is returned iff the owner count was
\* exactly 1; a returned value goes to destruct in the same iteration; when
\* nothing is returned the owner count drops by exactly one (and stays
\* positive) and the value stays live with its fields untouched.
C7_ExtractionOutcome ==
  [][\A c \in Conts : nExtract'[c] = nExtract[c] + 1 =>
       LET v == target(c)
       IN  /\ xres'[c] \in {"Some", "None"}
           /\ kind = "Box" => xres'[c] = "Some"
           /\ kind \in {"Rc", "Arc"} => (xres'[c] = "Some" <=> strong[v] = 1)
           /\ xres'[c] = "Some" =>
                /\ nDestruct'[v] = nDestruct[v] + 1
                /\ strong'[v] = 0
           /\ xres'[c] = "None" =>
                /\ strong'[v] = strong[v] - 1
                /\ strong'[v] >= 1
                /\ vstate[v] = "live"
                /\ vstate'[v] = "live"
                /\ fields'[v] = fields[v]
                /\ nDestruct'[v] = nDestruct[v]]_vars

\* An Rc value with two handles: the first extraction gave nothing, the
\* second gave the value.
C7_Witness ==
  /\ kind = "Rc"
  /\ \E c, d \in Conts :
       /\ c # d
       /\ target(c) = target(d)
       /\ xres[c] = "None"
       /\ xres[d] = "Some"

\* Thread t is about to extract a handle to value v.
AboutToExtract(t, v) ==
  /\ stack[t] # <<>>
  /\ Top(t).fn = "drop"
  /\ Top(t).list # <<>>
  /\ target(Pop(Top(t).list).item) = v

\* C8: at most one last owner.  In an Arc structure torn down by several
\* threads, for every value at most one extraction of a handle to it has
\* returned the value, and the value has been decomposed at most once.
C8_OneLastOwner ==
  kind = "Arc" =>
    \A v \in Vals :
      /\ Cardinality({c \in Conts : target(c) = v /\ xres[c] = "Some"}) <= 1
      /\ nDestruct[v] + nGlue[v] <= 1

\* Two threads are each about to extract a handle to the same Arc value.
C8_Witness ==
  /\ kind = "Arc"
  /\ \E v \in Vals : AboutToExtract(1, v) /\ AboutToExtract(2, v)

----------------------------------------------------------------------------
\* C9 as claimed: the containers left in the work list when destruct
\* panicked are never extracted nor destroyed afterwards (and for Box their
\* values stay undestroyed: they leak), and nothing is destroyed twice.
C9_LeftoversLeak ==
  /\ \A c \in Conts : nExtract[c] + nKDrop[c] <= 1
  /\ \A t \in 1..NThreads : \A c \in stranded[t] :
       /\ nExtract[c] = 0
       /\ nKDrop[c] = 0
       /\ kind = "Box" => vstate[target(c)] = "live"

\* C9, amended: when destruct panics inside FlatDrop::drop the interrupted
\* loop pops nothing more, so no container left in its work list is ever
\* passed to into_option_inner; no container and no value is destroyed
\* twice.  Under panic = "unwind" the unwinding drops to_drop: when it has
\* finished, every left-over container has been destroyed exactly once by
\* its ordinary drop, and in a Box structure every value below it is
\* destroyed too.  The left-over containers leak only when the process
\* aborts (panic = "abort", or a second panic while unwinding).
C9_LeftoversDroppedOnce ==
  /\ \A c \in Conts : nExtract[c] + nKDrop[c] <= 1
  /\ \A v \in Vals : nDestruct[v] + nGlue[v] <= 1
  /\ \A t \in 1..NThreads : \A c \in stranded[t] :
       /\ nExtract[c] = 0
       /\ panicMode = "abort" => (aborted /\ nKDrop[c] = 0)
       /\ tstate[t] = "panicked" =>
            /\ nKDrop[c] = 1
            /\ kind = "Box" => \A u \in Desc(target(c)) : vstate[u] # "live"
  /\ \A t \in 1..NThreads : tstate[t] # "ok" => panicMode = "unwind"

\* A thread has finished unwinding a panic that left containers in the work
\* list; one of them owned a child, torn down by a nested FlatDrop::drop.
C9_Witness ==
  /\ tstate[1] = "panicked"
  /\ \E c \in stranded[1] :
       /\ nKDrop[c] = 1
       /\ \E d \in KidConts(target(c)) : nExtract[d] = 1 /\ nDestruct[target(d)] = 1

----------------------------------------------------------------------------
\* The largest number of child containers any value yields on decomposition.
MaxKids ==
  LET ks == {Cardinality(KidConts(v)) : v \in Vals}
  IN  CHOOSE k \in ks : \A j \in ks : j <= k

\* The number of ownership edges on the longest path below v.
RECURSIVE Height(_)
Height(v) ==
  IF KidConts(v) = {} THEN 0
  ELSE LET hs == {Height(target(c)) : c \in KidConts(v)}
       IN  1 + (CHOOSE h \in hs : \A j \in hs : j <= h)

\* The work lists of all running invocations of FlatDrop::drop.
AllWorkLists ==
  UNION {{stack[t][i].list : i \in DropFrames(t)} : t \in 1..NThreads}

\* C10 as claimed: the work list never holds more containers than the
\* largest number of children of a single value (or 1, for the first entry).
C10_BoundedBySiblings ==
  \A l \in AllWorkLists : Len(l) <= Max(MaxKids, 1)

\* C10, amended: with B the largest number of children of a single value and
\* H the height of the structure, the work list never holds more than
\* 1 + H * (B - 1) containers: the siblings left pending at each level of the
\* path being descended add up, so for B >= 2 the bound grows with depth.
\* For a chain (B <= 1) it never exceeds 1.
C10_BoundedByDepthTimesSiblings ==
  \A l \in AllWorkLists :
    /\ Len(l) <= 1 + Height(1) * (Max(MaxKids, 1) - 1)
    /\ IsChain => Len(l) <= 1

\* A tree of height 2 whose values have two children or none: the work list
\* holds 3 containers.
C10_Witness ==
  /\ MaxKids = 2
  /\ Height(1) = 2
  /\ \E l \in AllWorkLists : Len(l) = 3

----------------------------------------------------------------------------
\* The position of container c among the children its owner's destruct
\* yields: the fields are yielded in declaration order.
YieldedAfter(c, e) == e[1] = c[1] /\ e[2] > c[2]

\* C11: last in, first out.  Every step of the loop extracts the last entry
\* of the work list and leaves the entries below it in place and in order,
\* the children it appends coming after them in the order destruct yielded
\* them.  Consequently, in a Box structure, when a child container yielded
\* by a decomposition is extracted, every child yielded after it has been
\* processed together with everything beneath it, and every child yielded
\* before it is still pending with everything beneath it untouched.
C11_LastInFirstOut ==
  [][\A t \in 1..NThreads : \A c \in Conts :
       (/\ stack[t] # <<>>
        /\ Top(t).fn = "drop"
        /\ c \in Range(Top(t).list)
        /\ nExtract'[c] = nExtract[c] + 1
        /\ Len(stack'[t]) = Len(stack[t])) =>
         LET old == Top(t).list
             new == stack'[t][Len(stack[t])].list
             n   == Len(old)
         IN  /\ old[n] = c
             /\ Len(new) >= n - 1
             /\ SubSeq(new, 1, n - 1) = SubSeq(old, 1, n - 1)
             /\ \A i, j \in n..Len(new) : i < j => new[i][2] < new[j][2]
             /\ \A i \in n..Len(new) : new[i][1] = target(c)
             /\ (kind = "Box" /\ c[1] >= 1 /\ nDestruct[c[1]] = 1) =>
                  \A e \in Conts :
                    /\ YieldedAfter(c, e) =>
                         \A u \in Desc(target(e)) : vstate[u] = "decomposed"
                    /\ YieldedAfter(e, c) =>
                         /\ e \in Range(old)
                         /\ \A u \in Desc(target(e)) : vstate[u] = "live"]_vars

\* In a Box tree whose root has two children, the one yielded last owning a
\* child of its own: the first child is extracted after the whole subtree of
\* the last one.
C11_Witness ==
  /\ kind = "Box"
  /\ KidConts(1) = {<<1, 2>>, <<1, 3>>}
  /\ KidConts(3) # {}
  /\ nExtract[<<1, 2>>] = 1
  /\ \A u \in Desc(3) : vstate[u] = "decomposed"

----------------------------------------------------------------------------
\* C12: frame of a failed extraction.  In a step in which into_option_inner
\* of a container c gives nothing, c was the last entry of the running
\* thread's work list and the step only removes it: the other entries stay in
\* place and in order, nothing is appended, no destruct and no drop runs, no
\* value, wrapper or outside handle changes, and the only change to the heap
\* is the owner count of c's value, lowered by one.
C12_FailedExtractionFrame ==
  [][\A c \in Conts :
       (nExtract'[c] = nExtract[c] + 1 /\ xres'[c] = "None") =>
         /\ \E t \in 1..NThreads :
              /\ stack[t] # <<>>
              /\ Top(t).fn = "drop"
              /\ Top(t).list # <<>>
              /\ Top(t).list[Len(Top(t).list)] = c
              /\ stack' = [stack EXCEPT ![t] =
                   SetTopList(t, SubSeq(Top(t).list, 1, Len(Top(t).list) - 1))]
         /\ strong' = [strong EXCEPT ![target(c)] = @ - 1]
         /\ nExtract' = [nExtract EXCEPT ![c] = @ + 1]
         /\ xres' = [xres EXCEPT ![c] = "None"]
         /\ UNCHANGED <<fields, vstate, nDestruct, nGlue, nKDrop>>
         /\ UNCHANGED <<wraps, env, nTake, nRun, tstate, aborted>>]_vars

\* An Rc value with an outside handle was popped while a sibling was pending:
\* the extraction gave nothing and the sibling is what the work list holds.
C12_Witness ==
  /\ kind = "Rc"
  /\ <<1, 3>> \in Conts
  /\ xres[<<1, 3>>] = "None"
  /\ vstate[3] = "live"
  /\ stack[1] # <<>>
  /\ Top(1).fn = "drop"
  /\ Top(1).list = <<(<<1, 2>>)>>

----------------------------------------------------------------------------
\* Borrows of the held container.

\* A deref that moves the container out of the field.
ManuallyDropDerefTake(w) == [ref |-> slot[w], init |-> FALSE]

\* self.0.deref() / self.0.deref_mut(): a reference to the container in the
\* ManuallyDrop field, which stays initialised as it was.
ManuallyDropDeref(w) == [ref |-> slot[w], init |-> winit[w]]

\* Deref::deref and DerefMut::deref_mut give the container.
Deref(w) == ManuallyDropDeref(w).ref

DerefMut(w) == ManuallyDropDeref(w).ref

\* AsRef::as_ref and AsMut::as_mut, (**self).as_ref(): the container's own
\* as_ref, which for Box<T>, Rc<T> and Arc<T> gives the value.
AsRef(w) == target(Deref(w))

AsMut(w) == target(DerefMut(w))

Borrows == SumOver(nBorrow, Wraps)

\* The owner borrows from a wrapper it holds: the call returns the reference.
Borrow(t, w, op, c, v) ==
  /\ Idle(t)
  /\ w \in envW
  /\ Borrows < MaxBorrow
  /\ nBorrow' = [nBorrow EXCEPT ![w] = @ + 1]
  /\ lent' = [op |-> op, w |-> w, cont |-> c, val |-> v]
  /\ winit' = [winit EXCEPT ![w] = ManuallyDropDeref(w).init]
  /\ UNCHANGED <<struct, heap, slot, wstate, given, ret, env, ctl, hist>>

EnvDeref(t, w) == Borrow(t, w, "deref", Deref(w), 0)

EnvDerefMut(t, w) == Borrow(t, w, "deref_mut", DerefMut(w), 0)

EnvAsRef(t, w) == Borrow(t, w, "as_ref", Deref(w), AsRef(w))

\* Of the three container types only Box<T> implements AsMut<T>.
EnvAsMut(t, w) == kind = "Box" /\ Borrow(t, w, "as_mut", DerefMut(w), AsMut(w))

\* The Box structures of three values less and the Rc structures of two
\* values less.
InitBorrow ==
  \/ \E n \in 1..(MaxNodes - 3) : \E own \in BoxShapes(n) :
       Build("Box", n, own, [v \in 1..n |-> 0], {}, "unwind")
  \/ InitShared({"Rc"}, MaxShared - 2, FALSE, {"unwind"})

NextBorrow ==
  \/ Next
  \/ \E t \in 1..NThreads : \E w \in envW : EnvDeref(t, w)
  \/ \E t \in 1..NThreads : \E w \in envW : EnvDerefMut(t, w)
  \/ \E t \in 1..NThreads : \E w \in envW : EnvAsRef(t, w)
  \/ \E t \in 1..NThreads : \E w \in envW : EnvAsMut(t, w)

SpecBorrow == InitBorrow /\ [][NextBorrow]_vars

\* The owner has destroyed wrapper w: it is consumed, and not by into_inner.
Destroyed(w) == wstate[w] = "Consumed" /\ ret[w] = NoCont

\* C13: borrows keep the ownership state.  A step that borrows from a wrapper
\* (deref, deref_mut, as_ref, as_mut) finds it Active and leaves it Active
\* with the same initialised container; it extracts, decomposes and drops
\* nothing and changes no value, no other wrapper and no handle; the
\* reference it returns is to the wrapper's own container, or to that
\* container's value.  However many borrows a wrapper has seen, it is still
\* Active with its container untouched until it is consumed, and once it has
\* been destroyed FlatDrop::drop has run for it exactly once.
C13_BorrowKeepsOwnership ==
  /\ [](\A w \in Wraps : nBorrow[w] > 0 =>
          /\ nRun[w] <= 1
          /\ nTake[w] <= 1
          /\ wstate[w] # "Unborn"
          /\ wstate[w] = "Active" =>
               /\ winit[w]
               /\ slot[w] = given[w]
               /\ nRun[w] = 0
               /\ nExtract[slot[w]] = 0
               /\ vstate[target(slot[w])] = "live"
          /\ Destroyed(w) => (nRun[w] = 1 /\ nTake[w] = 1))
  /\ [][\A w \in Wraps : nBorrow'[w] # nBorrow[w] =>
          /\ nBorrow'[w] = nBorrow[w] + 1
          /\ wstate[w] = "Active"
          /\ UNCHANGED <<wraps, heap, env, stack, tstate, aborted, hist>>
          /\ lent'.w = w
          /\ lent'.cont = slot[w]
          /\ lent'.val \in {0, target(slot[w])}]_vars

\* A wrapper was borrowed from twice, the last time mutably, and then
\* destroyed: its teardown has run once and decomposed its value.
C13_Witness ==
  \E w \in Wraps :
    /\ nBorrow[w] >= 2
    /\ lent.w = w
    /\ lent.op \in {"deref_mut", "as_mut"}
    /\ Destroyed(w)
    /\ nRun[w] = 1
    /\ AllStacksEmpty
    /\ vstate[target(slot[w])] = "decomposed"

----------------------------------------------------------------------------
\* Every handle of the structure is owned inside it (or is the head).
AllInternal == \A c \in Conts : c[1] >= 0

\* The handles to value v, as built.
HandlesTo(v) == {c \in Conts : target(c) = v}

\* C14: internal sharing.  In an Rc or Arc graph all of whose handles are
\* owned inside the structure, no value is decomposed twice, and the handle
\* whose extraction returned a value was the last one left: every other
\* handle to that value had been extracted to nothing before.  Once
\* FlatDrop::drop of the wrapped head has returned, every value has been
\* decomposed exactly once, by exactly one of its handles, every handle has
\* been extracted exactly once and every owner count is zero.
C14_InternalSharing ==
  (kind \in {"Rc", "Arc"} /\ AllInternal) =>
    /\ \A v \in Vals : nDestruct[v] + nGlue[v] <= 1
    /\ \A c \in Conts : xres[c] = "Some" =>
         \A d \in HandlesTo(target(c)) \ {c} : xres[d] = "None"
    /\ HeadTornDown =>
         \A v \in Vals :
           /\ nDestruct[v] = 1
           /\ vstate[v] = "decomposed"
           /\ strong[v] = 0
           /\ Cardinality({c \in HandlesTo(v) : xres[c] = "Some"}) = 1
           /\ \A c \in HandlesTo(v) : nExtract[c] = 1 /\ nKDrop[c] = 0

\* A diamond: value 3 is owned by values 1 and 2, value 2 by value 1.  The
\* head has been torn down; one handle to 3 was extracted to nothing, the
\* other returned it.
C14_Witness ==
  /\ kind = "Rc"
  /\ AllInternal
  /\ Cardinality(Vals) = 3
  /\ HandlesTo(3) = {<<1, 3>>, <<2, 3>>}
  /\ HeadTornDown
  /\ {xres[c] : c \in HandlesTo(3)} = {"None", "Some"}
  /\ \A v \in Vals : nDestruct[v] = 1

----------------------------------------------------------------------------
\* The handles to v whose extraction returned the value.
Winners(v) == {c \in HandlesTo(v) : xres[c] = "Some"}

\* C15: no lost last owner.  In an Arc structure, under every interleaving
\* of the threads, once every handle to a value has been consumed by
\* extraction exactly one of the extractions has returned the value; the
\* value has then been decomposed (once), its owner count is zero, and each
\* of its child containers has been pushed on the winner's work list: it is
\* pending in a work list or has been extracted in its turn.
C15_NoLostLastOwner ==
  kind = "Arc" =>
    \A v \in Vals :
      (\A c \in HandlesTo(v) : xres[c] # "-") =>
        /\ Cardinality(Winners(v)) = 1
        /\ nDestruct[v] = 1
        /\ vstate[v] = "decomposed"
        /\ strong[v] = 0
        /\ \A d \in KidConts(v) :
             \/ nExtract[d] = 1
             \/ \E t \in 1..NThreads : d \in InFrames(t)

\* Two threads are inside FlatDrop::drop at once, each has extracted its
\* handle to the same Arc value, and exactly one of them got the value.
C15_Witness ==
  /\ kind = "Arc"
  /\ \E c, d \in HandlesTo(1) :
       /\ c # d
       /\ HandlesTo(1) = {c, d}
       /\ xres[c] = "Some"
       /\ xres[d] = "None"
  /\ \A t \in 1..NThreads : stack[t] # <<>> /\ Top(t).fn = "drop"

----------------------------------------------------------------------------
\* C16: owner-count conservation.  In every state, before, during and after
\* teardown, the owner count of each value is the number of live handles to
\* it: the handles in work lists and in running drop glue, the handles held
\* in the fields of values not yet decomposed, and the handles the
\* environment holds, wrapped or plain.  A value is live exactly while that
\* number is positive.
C16_CountConservation ==
  \A v \in Vals :
    /\ strong[v] = Cardinality(LiveHandles(v))
    /\ vstate[v] = "live" <=> Cardinality(LiveHandles(v)) > 0
    /\ kind = "Box" => strong[v] <= 1

\* In the middle of a teardown an Rc value other than the head has two live
\* handles, one pending in the work list and one held outside.
C16_Witness ==
  /\ kind = "Rc"
  /\ \E v \in Vals \ {1} :
       /\ strong[v] = 2
       /\ \E c \in LiveHandles(v) : c \in InFrames(1)
       /\ \E c \in LiveHandles(v) : c \in envK
       /\ vstate[1] = "decomposed"

====
